---- MODULE Spec2Model ----
(***************************************************************************)
(* ChatDataLab: the two notebook helpers filter_subset (get_random.py) and *)
(* search_text_matches (search.py), modelled as a state machine.  A state  *)
(* holds one call's arguments (the DataFrame and the keyword arguments),   *)
(* and, once the call has run, the locals it ended with (filtered_df, the  *)
(* warnings it emitted) and what it returned or raised.                    *)
(***************************************************************************)
EXTENDS Integers, Sequences, FiniteSets, TLC

VARIABLES df, text, case_sensitive, from_start, return_all, kwargs,
          pc, text_df, filtered_df, warned, result

vars == <<df, text, case_sensitive, from_start, return_all, kwargs,
          pc, text_df, filtered_df, warned, result>>

args == <<df, text, case_sensitive, from_start, return_all, kwargs>>

(***************************************************************************)
(* Bounds of the model.                                                    *)
(***************************************************************************)
\* rows of a DataFrame
MaxRows == 2
\* characters of a message and of a query text
MaxLen == 2
\* numeric cells and numeric bounds range over 0..MaxVal
MaxVal == 1
\* elements of a tuple given as a numeric range
MaxTuple == 3
\* elements of a list given as a filter value
MaxList == 2

(***************************************************************************)
(* Python values.  A scalar is None, an int or a str; a filter value is a  *)
(* scalar, a tuple of scalars or a list of scalars.                        *)
(***************************************************************************)
PyNone == [t |-> "None", n |-> 0, s |-> <<>>]
PyInt(i) == [t |-> "int", n |-> i, s |-> <<>>]
\* a str is its sequence of characters
PyStr(x) == [t |-> "str", n |-> 0, s |-> x]

Scalar(v) == [shape |-> "scalar", elems |-> <<v>>]
PyTuple(es) == [shape |-> "tuple", elems |-> es]
PyList(es) == [shape |-> "list", elems |-> es]

None == Scalar(PyNone)

\* `x is None`
IsNone(x) == x.shape = "scalar" /\ x.elems[1].t = "None"

\* isinstance(x, (int, float))
IsNumber(x) == x.shape = "scalar" /\ x.elems[1].t = "int"

\* isinstance(x, tuple), isinstance(x, list)
IsTuple(x) == x.shape = "tuple"
IsList(x) == x.shape = "list"

(***************************************************************************)
(* The DataFrame.  df.columns is the set of column names present; a row    *)
(* carries its index label (its position in the original table) and its    *)
(* cells.  A message cell is a str or missing (isna).                      *)
(***************************************************************************)
AllColumns == {"message", "conv_id", "turn_num", "turns", "source"}

\* pd.api.types.is_numeric_dtype(df[key].dtype), by the column's declared type
is_numeric_dtype(key) == key \in {"turn_num", "turns"}

Frame(d) == [i \in 1..Len(d.rows) |-> [idx |-> i, row |-> d.rows[i]]]

\* df.copy()
copy(d) == Frame(d)

\* DataFrame.empty: some axis has length 0
empty(d, f) == d.columns = {} \/ Len(f) = 0

RECURSIVE SelectMask(_, _)
\* filtered_df[mask]: the rows whose mask entry is True, in order
SelectMask(f, mask) ==
  IF Len(f) = 0 THEN <<>>
  ELSE LET rest == SelectMask(Tail(f), Tail(mask))
       IN  IF Head(mask) THEN <<Head(f)>> \o rest ELSE rest

(***************************************************************************)
(* pandas comparisons of a column with a Python value.  The outcome is a   *)
(* boolean mask, or the ValueError pandas raises when a list is compared   *)
(* with a column of another length.                                        *)
(***************************************************************************)
\* one cell against one scalar; a cell never equals a value of another type
CellCmp(key, c, v, op) ==
  IF is_numeric_dtype(key)
  THEN /\ v.t = "int"
       /\ CASE op = "eq" -> c = v.n
            [] op = "ge" -> c >= v.n
            [] op = "le" -> c <= v.n
  ELSE /\ v.t = "str"
       /\ op = "eq"
       /\ c = v.s

\* filtered_df[key] <op> x, for x a scalar (broadcast) or a list (elementwise)
SeriesCmp(f, key, x, op) ==
  CASE x.shape = "scalar" ->
         [exc |-> "",
          mask |-> [i \in 1..Len(f) |-> CellCmp(key, f[i].row[key], x.elems[1], op)]]
    [] x.shape = "list" ->
         IF Len(x.elems) # Len(f)
         THEN [exc |-> "ValueError", mask |-> <<>>]
         ELSE [exc |-> "",
               mask |-> [i \in 1..Len(f) |-> CellCmp(key, f[i].row[key], x.elems[i], op)]]

\* filtered_df[key].isin(values)
SeriesIsin(f, key, values) ==
  [i \in 1..Len(f) |->
     \E j \in 1..Len(values) : CellCmp(key, f[i].row[key], values[j], "eq")]

\* Restrict followed by reset_index(drop=True): the kept rows are renumbered
Restrict_reset_index(f, key, x, op) ==
  LET c == SeriesCmp(f, key, x, op)
      g == SelectMask(f, c.mask)
  IN  IF c.exc # "" THEN [exc |-> c.exc, f |-> <<>>]
      ELSE [exc |-> "", f |-> [i \in 1..Len(g) |-> [idx |-> i, row |-> g[i].row]]]

\* filtered_df = filtered_df[filtered_df[key] <op> x]
Restrict(f, key, x, op) ==
  LET c == SeriesCmp(f, key, x, op)
  IN  IF c.exc # "" THEN [exc |-> c.exc, f |-> <<>>]
      ELSE [exc |-> "", f |-> SelectMask(f, c.mask)]

RECURSIVE UniqueFrom(_, _)
UniqueFrom(vals, seen) ==
  IF Len(vals) = 0 THEN <<>>
  ELSE IF Head(vals) \in seen THEN UniqueFrom(Tail(vals), seen)
  ELSE <<Head(vals)>> \o UniqueFrom(Tail(vals), seen \cup {Head(vals)})

\* tolist() without unique(): duplicates kept
unique_keeps_duplicates(vals) == vals

\* Series.unique(): the distinct values in order of first appearance
unique(vals) == UniqueFrom(vals, {})

\* filtered_df[key] as the sequence of its cells
Column(f, key) == [i \in 1..Len(f) |-> f[i].row[key]]

\* random.choice(seq): the values a draw can return
random_choice(vals) == {vals[i] : i \in 1..Len(vals)}

(***************************************************************************)
(* get_random.py: filter_subset                                            *)
(***************************************************************************)
\* parse_range with a number read as a lower limit only
parse_range_number_as_lower(range_input) ==
  IF IsNone(range_input) THEN <<None, None>>
  ELSE IF IsNumber(range_input) THEN <<range_input, None>>
  ELSE IF IsTuple(range_input)
       THEN IF Len(range_input.elems) = 0 THEN <<None, None>>
            ELSE IF Len(range_input.elems) = 1
                 THEN <<Scalar(range_input.elems[1]), None>>
                 ELSE <<Scalar(range_input.elems[1]), Scalar(range_input.elems[2])>>
  ELSE <<range_input, range_input>>

\* parse_range with a 1-element tuple read as an exact value
parse_range_single_as_exact(range_input) ==
  IF IsNone(range_input) THEN <<None, None>>
  ELSE IF IsNumber(range_input) THEN <<range_input, range_input>>
  ELSE IF IsTuple(range_input)
       THEN IF Len(range_input.elems) = 0 THEN <<None, None>>
            ELSE IF Len(range_input.elems) = 1
                 THEN <<Scalar(range_input.elems[1]), Scalar(range_input.elems[1])>>
                 ELSE <<Scalar(range_input.elems[1]), Scalar(range_input.elems[2])>>
  ELSE <<range_input, range_input>>

\* the helper parse_range of filter_subset: (min_val, max_val)
parse_range(range_input) ==
  IF IsNone(range_input) THEN <<None, None>>
  ELSE IF IsNumber(range_input) THEN <<range_input, range_input>>
  ELSE IF IsTuple(range_input)
       THEN IF Len(range_input.elems) = 0 THEN <<None, None>>
            ELSE IF Len(range_input.elems) = 1
                 THEN <<Scalar(range_input.elems[1]), None>>
                 ELSE <<Scalar(range_input.elems[1]), Scalar(range_input.elems[2])>>
  ELSE <<range_input, range_input>>

\* the numeric branch with the upper limit exclusive (< in place of <=)
filter_subset_numeric_exclusive_upper(f, key, value) ==
  LET r == parse_range(value)
      min_val == r[1]
      max_val == r[2]
  IN  IF ~IsNone(min_val) /\ ~IsNone(max_val) /\ min_val = max_val
      THEN Restrict(f, key, min_val, "eq")
      ELSE LET lo == IF ~IsNone(min_val) THEN Restrict(f, key, min_val, "ge")
                     ELSE [exc |-> "", f |-> f]
           IN  IF lo.exc # "" \/ IsNone(max_val) THEN lo
               ELSE Restrict(lo.f, key, Scalar(PyInt(max_val.elems[1].n - 1)), "le")

\* the numeric branch of filter_subset's loop body
filter_subset_numeric(f, key, value) ==
  LET r == parse_range(value)
      min_val == r[1]
      max_val == r[2]
  IN  IF ~IsNone(min_val) /\ ~IsNone(max_val) /\ min_val = max_val
      THEN Restrict(f, key, min_val, "eq")
      ELSE LET lo == IF ~IsNone(min_val) THEN Restrict(f, key, min_val, "ge")
                     ELSE [exc |-> "", f |-> f]
           IN  IF lo.exc # "" \/ IsNone(max_val) THEN lo
               ELSE Restrict(lo.f, key, max_val, "le")

\* the object branch with a scalar matched as a substring (str.contains)
filter_subset_object_substring(f, key, value) ==
  IF IsList(value)
  THEN [exc |-> "", f |-> SelectMask(f, SeriesIsin(f, key, value.elems))]
  ELSE LET q == value.elems[1].s
       IN  [exc |-> "",
            f |-> SelectMask(f, [i \in 1..Len(f) |->
                    \E k \in 0..Len(f[i].row[key]) :
                      /\ k + Len(q) <= Len(f[i].row[key])
                      /\ \A n \in 1..Len(q) : f[i].row[key][k + n] = q[n]])]

\* the string/object branch of filter_subset's loop body
filter_subset_object(f, key, value) ==
  IF IsList(value)
  THEN [exc |-> "", f |-> SelectMask(f, SeriesIsin(f, key, value.elems))]
  ELSE Restrict(f, key, value, "eq")

RECURSIVE filter_subset_loop_from_df(_, _, _)
\* the loop with each filter applied to df instead of filtered_df: the last wins
filter_subset_loop_from_df(d, f, kw) ==
  IF Len(kw) = 0 THEN [exc |-> "", f |-> f]
  ELSE LET key == Head(kw).key
           value == Head(kw).value
       IN  IF key \notin d.columns THEN filter_subset_loop_from_df(d, f, Tail(kw))
           ELSE LET r == IF is_numeric_dtype(key)
                         THEN filter_subset_numeric(copy(d), key, value)
                         ELSE filter_subset_object(copy(d), key, value)
                IN  IF r.exc # "" THEN r
                    ELSE filter_subset_loop_from_df(d, r.f, Tail(kw))

RECURSIVE filter_subset_loop(_, _, _)
\* for key, value in kwargs.items(): ...
filter_subset_loop(d, f, kw) ==
  IF Len(kw) = 0 THEN [exc |-> "", f |-> f]
  ELSE LET key == Head(kw).key
           value == Head(kw).value
       IN  IF key \notin d.columns THEN filter_subset_loop(d, f, Tail(kw))
           ELSE LET r == IF is_numeric_dtype(key)
                         THEN filter_subset_numeric(f, key, value)
                         ELSE filter_subset_object(f, key, value)
                IN  IF r.exc # "" THEN r
                    ELSE filter_subset_loop(d, r.f, Tail(kw))

(***************************************************************************)
(* What a call returns or raises.                                          *)
(***************************************************************************)
Outcome(kind, exc, columns, ids, id, turns) ==
  [kind |-> kind, exc |-> exc, columns |-> columns, ids |-> ids, id |-> id,
   turns |-> turns]

NoResult == Outcome("pending", "", <<>>, <<>>, "", <<>>)
ReturnNone == Outcome("None", "", <<>>, <<>>, "", <<>>)
ReturnList(ids) == Outcome("list", "", <<>>, ids, "", <<>>)
ReturnId(g) == Outcome("id", "", <<>>, <<>>, g, <<>>)
ReturnPair(g, turns) == Outcome("pair", "", <<>>, <<>>, g, turns)
\* `columns` is the column list the exception's message prints
Raise(exc, columns) == Outcome("raise", exc, columns, <<>>, "", <<>>)

\* what filter_subset returns or raises once the loop has ended with r
filter_subset_returns(d, r, all) ==
  IF r.exc # "" THEN {Raise(r.exc, <<>>)}
  ELSE IF empty(d, r.f) THEN {ReturnNone}
  ELSE IF "conv_id" \notin d.columns THEN {Raise("KeyError", <<>>)}
  ELSE IF all THEN {ReturnList(unique(Column(r.f, "conv_id")))}
  ELSE {ReturnId(g) : g \in random_choice(unique(Column(r.f, "conv_id")))}

(***************************************************************************)
(* Python's re, for the patterns search_text_matches builds: a pattern is  *)
(* a string; compiling it gives items that each match one character (a     *)
(* literal, or "." for any character but a newline) or the start ("^").    *)
(***************************************************************************)
\* the characters re.escape puts a backslash before, among those modelled
SpecialChars == {".", "^", "\\"}

RECURSIVE re_escape(_)
\* re.escape(text)
re_escape(t) ==
  IF Len(t) = 0 THEN <<>>
  ELSE (IF Head(t) \in SpecialChars THEN <<"\\", Head(t)>> ELSE <<Head(t)>>)
       \o re_escape(Tail(t))

RECURSIVE re_compile(_)
\* re.compile(pattern): the pattern's items
re_compile(p) ==
  IF Len(p) = 0 THEN <<>>
  ELSE IF Head(p) = "\\" /\ Len(p) >= 2
       THEN <<[item |-> "literal", c |-> p[2]]>> \o re_compile(SubSeq(p, 3, Len(p)))
  ELSE IF Head(p) = "." THEN <<[item |-> "any", c |-> ""]>> \o re_compile(Tail(p))
  ELSE IF Head(p) = "^" THEN <<[item |-> "start", c |-> ""]>> \o re_compile(Tail(p))
  ELSE <<[item |-> "literal", c |-> Head(p)]>> \o re_compile(Tail(p))

\* str.lower() of one character
lower(c) == IF c = "A" THEN "a" ELSE c

RECURSIVE MatchAt(_, _, _, _)
\* the items match the string from position i on (re.IGNORECASE when ~case)
MatchAt(items, str, i, case) ==
  IF Len(items) = 0 THEN TRUE
  ELSE LET it == Head(items)
       IN  CASE it.item = "start" -> i = 1 /\ MatchAt(Tail(items), str, i, case)
             [] it.item = "any" ->
                  /\ i <= Len(str)
                  /\ str[i] # "\n"
                  /\ MatchAt(Tail(items), str, i + 1, case)
             [] it.item = "literal" ->
                  /\ i <= Len(str)
                  /\ IF case THEN str[i] = it.c ELSE lower(str[i]) = lower(it.c)
                  /\ MatchAt(Tail(items), str, i + 1, case)

\* Series.str.match(pat, case, na=False) on one cell: re.match, at the start
str_match(cell, pat, case) ==
  ~cell.isna /\ MatchAt(re_compile(pat), cell.str, 1, case)

\* Series.str.contains(pat, case, na=False) on one cell: re.search, anywhere
str_contains(cell, pat, case) ==
  ~cell.isna /\ \E i \in 1..(Len(cell.str) + 1) : MatchAt(re_compile(pat), cell.str, i, case)

(***************************************************************************)
(* search.py: search_text_matches                                          *)
(***************************************************************************)
\* the helper parse_range of search_text_matches: (min_val, max_val)
search_parse_range(range_input) ==
  IF IsNone(range_input) THEN <<None, None>>
  ELSE IF IsNumber(range_input) THEN <<range_input, range_input>>
  ELSE IF IsTuple(range_input)
       THEN IF Len(range_input.elems) = 0 THEN <<None, None>>
            ELSE IF Len(range_input.elems) = 1
                 THEN <<Scalar(range_input.elems[1]), None>>
                 ELSE <<Scalar(range_input.elems[1]), Scalar(range_input.elems[2])>>
  ELSE <<range_input, range_input>>

required_columns == <<"message", "conv_id", "turn_num">>

\* any(...) in place of all(...)
has_required_columns_any(d) ==
  \E i \in 1..Len(required_columns) : required_columns[i] \in d.columns

\* all(column in df.columns for column in required_columns)
has_required_columns(d) ==
  \A i \in 1..Len(required_columns) : required_columns[i] \in d.columns

\* the text stage with case=False left out of the str.match call
text_mask_case_dropped(f, txt, case, start) ==
  IF start
  THEN LET pattern == <<"^">> \o re_escape(txt)
       IN  [i \in 1..Len(f) |-> str_match(f[i].row.message, pattern, TRUE)]
  ELSE [i \in 1..Len(f) |-> str_contains(f[i].row.message, txt, case)]

\* the text stage: the mask over the rows of the copy
text_mask(f, txt, case, start) ==
  IF start
  THEN LET pattern == <<"^">> \o re_escape(txt)
       IN  [i \in 1..Len(f) |-> str_match(f[i].row.message, pattern, case)]
  ELSE [i \in 1..Len(f) |-> str_contains(f[i].row.message, txt, case)]

\* the numeric branch of search_text_matches's loop body
search_numeric(f, key, value) ==
  LET r == search_parse_range(value)
      min_val == r[1]
      max_val == r[2]
  IN  IF ~IsNone(min_val) /\ ~IsNone(max_val) /\ min_val = max_val
      THEN Restrict(f, key, min_val, "eq")
      ELSE LET lo == IF ~IsNone(min_val) THEN Restrict(f, key, min_val, "ge")
                     ELSE [exc |-> "", f |-> f]
           IN  IF lo.exc # "" \/ IsNone(max_val) THEN lo
               ELSE Restrict(lo.f, key, max_val, "le")

\* the object branch of search_text_matches with a scalar matched as a substring
search_object_substring(f, key, value) ==
  IF IsList(value)
  THEN [exc |-> "", f |-> SelectMask(f, SeriesIsin(f, key, value.elems))]
  ELSE LET q == value.elems[1].s
       IN  [exc |-> "",
            f |-> SelectMask(f, [i \in 1..Len(f) |->
                    \E k \in 0..Len(f[i].row[key]) :
                      /\ k + Len(q) <= Len(f[i].row[key])
                      /\ \A n \in 1..Len(q) : f[i].row[key][k + n] = q[n]])]

\* the string/object branch of search_text_matches's loop body
search_object(f, key, value) ==
  IF IsList(value)
  THEN [exc |-> "", f |-> SelectMask(f, SeriesIsin(f, key, value.elems))]
  ELSE Restrict(f, key, value, "eq")

\* no warning emitted
warn_silent(w, key) == w

\* warnings.warn(...) for an unknown key: the keys warned about so far
warn(w, key) == Append(w, key)

RECURSIVE search_loop(_, _, _, _)
\* for key, value in kwargs.items(): ...
search_loop(d, f, kw, w) ==
  IF Len(kw) = 0 THEN [exc |-> "", f |-> f, warned |-> w]
  ELSE LET key == Head(kw).key
           value == Head(kw).value
       IN  IF key \notin d.columns THEN search_loop(d, f, Tail(kw), warn(w, key))
           ELSE LET r == IF is_numeric_dtype(key)
                         THEN search_numeric(f, key, value)
                         ELSE search_object(f, key, value)
                IN  IF r.exc # "" THEN [exc |-> r.exc, f |-> <<>>, warned |-> w]
                    ELSE search_loop(d, r.f, Tail(kw), w)

\* the turns taken from df, the whole conversation, instead of filtered_df
matching_turns_whole_conversation(f, random_conv) ==
  Column(SelectMask(copy(df), [i \in 1..Len(df.rows) |-> df.rows[i].conv_id = random_conv]),
         "turn_num")

\* filtered_df[filtered_df['conv_id'] == random_conv]['turn_num'].tolist()
matching_turns(f, random_conv) ==
  Column(SelectMask(f, [i \in 1..Len(f) |-> f[i].row.conv_id = random_conv]), "turn_num")

\* search_text_matches without its `if filtered_df.empty: return None`
search_returns_no_empty_check(d, r, all) ==
  IF r.exc # "" THEN {Raise(r.exc, <<>>)}
  ELSE LET unique_convs == unique(Column(r.f, "conv_id"))
       IN  IF all THEN {ReturnList(unique_convs)}
           ELSE IF Len(unique_convs) = 0 THEN {Raise("IndexError", <<>>)}
           ELSE {ReturnPair(g, matching_turns(r.f, g)) : g \in random_choice(unique_convs)}

\* what search_text_matches returns or raises once the loop has ended with r
search_returns(d, r, all) ==
  IF r.exc # "" THEN {Raise(r.exc, <<>>)}
  ELSE IF empty(d, r.f) THEN {ReturnNone}
  ELSE LET unique_convs == unique(Column(r.f, "conv_id"))
       IN  IF all THEN {ReturnList(unique_convs)}
           ELSE {ReturnPair(g, matching_turns(r.f, g)) : g \in random_choice(unique_convs)}

(***************************************************************************)
(* The calls.  Each action is one whole call: the copy, the text stage,    *)
(* the filter loop and the return.                                         *)
(***************************************************************************)
filter_subset ==
  /\ pc = "ready"
  /\ LET r == filter_subset_loop(df, copy(df), kwargs)
     IN  /\ text_df' = copy(df)
         /\ filtered_df' = r.f
         /\ warned' = <<>>
         /\ \E out \in filter_subset_returns(df, r, return_all) : result' = out
  /\ pc' = "filter_subset"
  /\ UNCHANGED args

search_text_matches ==
  /\ pc = "ready"
  /\ IF ~has_required_columns(df)
     THEN /\ text_df' = <<>>
          /\ filtered_df' = <<>>
          /\ warned' = <<>>
          /\ result' = Raise("ValueError", required_columns)
     ELSE LET t == SelectMask(copy(df), text_mask(copy(df), text, case_sensitive, from_start))
              r == search_loop(df, t, kwargs, <<>>)
          IN  /\ text_df' = t
              /\ filtered_df' = r.f
              /\ warned' = r.warned
              /\ \E out \in search_returns(df, r, return_all) : result' = out
  /\ pc' = "search_text_matches"
  /\ UNCHANGED args

Next == filter_subset \/ search_text_matches

(***************************************************************************)
(* The arguments of a call.  Each family below varies the arguments one    *)
(* group of claims depends on and holds the others at a default.           *)
(***************************************************************************)
SeqsUpTo(S, n) == UNION {[1..k -> S] : k \in 0..n}

Alphabet == {"a", "A", "."}
Strs == SeqsUpTo(Alphabet, MaxLen)
NA == [isna |-> TRUE, str |-> <<>>]
Msg(x) == [isna |-> FALSE, str |-> x]
Msgs == {NA} \cup {Msg(x) : x \in Strs}

Convs == {"c1", "c2"}
Vals == 0..MaxVal
\* "w" is a proper substring of "wc"
Srcs == {<<"w", "c">>, <<"w">>}

Row(c, t, m, v, x) ==
  [conv_id |-> c, turn_num |-> t, message |-> m, turns |-> v, source |-> x]
Table(cols, rows) == [columns |-> cols, rows |-> rows]
Entry(k, v) == [key |-> k, value |-> v]

Ints == {PyInt(v) : v \in Vals}
Bounds == {PyNone} \cup Ints
NumValues ==
  {None} \cup {Scalar(v) : v \in Ints}
         \cup {PyTuple(es) : es \in SeqsUpTo(Bounds, MaxTuple)}
         \cup {PyList(es) : es \in SeqsUpTo(Ints, MaxList)}
ObjValues ==
  {Scalar(PyStr(x)) : x \in Srcs} \cup {PyList(es) : es \in SeqsUpTo({PyStr(x) : x \in Srcs}, MaxList)}

Start ==
  /\ pc = "ready"
  /\ text_df = <<>>
  /\ filtered_df = <<>>
  /\ warned = <<>>
  /\ result = NoResult

\* the text stage: messages, query text and the two text flags vary
InitText ==
  /\ df \in {Table(AllColumns, rs) :
               rs \in SeqsUpTo({Row("c1", 0, m, 0, <<"w">>) : m \in Msgs}, 1)}
  /\ text \in Strs
  /\ case_sensitive \in BOOLEAN
  /\ from_start \in BOOLEAN
  /\ return_all \in BOOLEAN
  /\ kwargs = <<>>

\* one filter on the numeric column turns, every shape of value
InitNumeric ==
  /\ df \in {Table(AllColumns, rs) :
               rs \in SeqsUpTo({Row("c1", 0, Msg(<<"a">>), v, <<"w">>) : v \in Vals}, MaxRows)}
  /\ text = <<"a">>
  /\ case_sensitive = TRUE
  /\ from_start = FALSE
  /\ return_all \in BOOLEAN
  /\ kwargs \in {<<Entry("turns", x)>> : x \in NumValues}

\* one filter on the object column source, a scalar or a list
InitObject ==
  /\ df \in {Table(AllColumns, rs) :
               rs \in SeqsUpTo({Row(c, 0, Msg(<<"a">>), 0, x) : c \in Convs, x \in Srcs},
                               MaxRows)}
  /\ text = <<"a">>
  /\ case_sensitive = TRUE
  /\ from_start = FALSE
  /\ return_all \in BOOLEAN
  /\ kwargs \in {<<Entry("source", x)>> : x \in ObjValues}

\* several filters at once, some on keys that are no column
FilterKeys == {"turns", "source", "bogus"}
SomeEntries ==
  {Entry("turns", x) : x \in {Scalar(PyInt(MaxVal)), PyTuple(<<PyInt(MaxVal)>>),
                              PyList(<<PyInt(MaxVal)>>)}}
    \cup {Entry("source", x) : x \in {Scalar(PyStr(<<"w">>)), PyList(<<PyStr(<<"w">>)>>)}}
    \cup {Entry("bogus", Scalar(PyInt(0)))}
\* kwargs is a dict: no key twice
SomeKwargs ==
  {kw \in SeqsUpTo(SomeEntries, Cardinality(FilterKeys)) :
     \A i, j \in 1..Len(kw) : i # j => kw[i].key # kw[j].key}

InitSeveral ==
  /\ df \in {Table(AllColumns, rs) :
               rs \in SeqsUpTo({Row(c, 0, Msg(<<"a">>), v, x) :
                                  c \in Convs, v \in Vals, x \in Srcs}, MaxRows)}
  /\ text = <<>>
  /\ case_sensitive = TRUE
  /\ from_start = FALSE
  /\ return_all = TRUE
  /\ kwargs \in SomeKwargs

\* the columns the table has vary
InitSchema ==
  /\ df \in {Table(cols, rs) :
               cols \in SUBSET AllColumns,
               rs \in SeqsUpTo({Row("c1", 0, Msg(<<"a">>), 0, <<"w">>)}, MaxRows)}
  /\ text = <<"a">>
  /\ case_sensitive = TRUE
  /\ from_start = FALSE
  /\ return_all \in BOOLEAN
  /\ kwargs \in {<<>>, <<Entry("turns", Scalar(PyInt(0)))>>}

\* rows of one conversation differ in turn_num, in whether the text matches
\* and in whether the filter keeps them
InitTurns ==
  /\ df \in {Table(AllColumns, rs) :
               rs \in SeqsUpTo({Row(c, t, m, 0, x) :
                                  c \in Convs, t \in Vals, m \in {NA, Msg(<<"a">>)},
                                  x \in Srcs}, MaxRows)}
  /\ text = <<"a">>
  /\ case_sensitive = TRUE
  /\ from_start = FALSE
  /\ return_all = FALSE
  /\ kwargs \in {<<>>, <<Entry("source", Scalar(PyStr(<<"w">>)))>>}

Init ==
  Start /\ (InitText \/ InitNumeric \/ InitObject \/ InitSeveral \/ InitSchema \/ InitTurns)

Spec == Init /\ [][Next]_vars

(***************************************************************************)
(* Properties.                                                             *)
(***************************************************************************)
called == pc # "ready"
\* the columns search_text_matches needs
Missing == {"message", "conv_id", "turn_num"} \ df.columns
searched == pc = "search_text_matches" /\ Missing = {}

\* the index labels of a frame
Index(f) == {f[i].idx : i \in 1..Len(f)}

\* two characters are the same, up to case when ~case
SameChar(a, b, case) == IF case THEN a = b ELSE lower(a) = lower(b)

\* q occurs in str at offset k, as a literal string
OccursAt(q, str, k, case) ==
  /\ k + Len(q) <= Len(str)
  /\ \A i \in 1..Len(q) : SameChar(str[k + i], q[i], case)

LiteralStartsWith(q, str, case) == OccursAt(q, str, 0, case)
LiteralContains(q, str, case) == \E k \in 0..Len(str) : OccursAt(q, str, k, case)

Fold(str) == [i \in 1..Len(str) |-> lower(str[i])]

\* C1: the rows the filter loop keeps are rows of the table, unaltered and in
\* table order, none added; with no filter the loop keeps every row it was
\* given (filter_subset: the whole table; search_text_matches: the
\* text-matched rows).
C1_KeptRowsAreRowsOfTable ==
  called =>
    /\ \A i \in 1..Len(filtered_df) :
         /\ filtered_df[i].idx \in 1..Len(df.rows)
         /\ filtered_df[i].row = df.rows[filtered_df[i].idx]
    /\ \A i, j \in 1..Len(filtered_df) : i < j => filtered_df[i].idx < filtered_df[j].idx
    /\ Index(filtered_df) \subseteq Index(text_df)
    /\ pc = "filter_subset" => text_df = Frame(df)
    /\ kwargs = <<>> => filtered_df = text_df

C1_Witness ==
  /\ called
  /\ kwargs # <<>>
  /\ Len(filtered_df) = 1
  /\ Len(df.rows) = 2
  /\ filtered_df[1].idx = 2

\* C2 as stated: with a required column missing, search_text_matches raises an
\* error that lists exactly the missing columns.
C2_ListsExactlyMissing ==
  (pc = "search_text_matches" /\ Missing # {}) =>
    /\ result.kind = "raise"
    /\ {result.columns[i] : i \in 1..Len(result.columns)} = Missing

\* C2 amended: with a required column missing, search_text_matches raises
\* ValueError, whose message lists all three required columns whichever are
\* missing; it raises that error in no other case.
C2_ListsAllRequired ==
  pc = "search_text_matches" =>
    /\ Missing # {} =>
         result = Raise("ValueError", <<"message", "conv_id", "turn_num">>)
    /\ Missing = {} => result.columns = <<>>

C2_Witness ==
  /\ pc = "search_text_matches"
  /\ "message" \notin df.columns
  /\ "conv_id" \in df.columns
  /\ "turn_num" \in df.columns
  /\ result.kind = "raise"

\* C3 as stated: in both modes the query text is a literal string; a row passes
\* the text stage iff its message contains (from_start: begins with) the query
\* text, character by character.
C3_QueryIsLiteral ==
  searched =>
    \A i \in 1..Len(df.rows) :
      LET m == df.rows[i].message
      IN  i \in Index(text_df) <=>
            /\ ~m.isna
            /\ IF from_start THEN LiteralStartsWith(text, m.str, case_sensitive)
               ELSE LiteralContains(text, m.str, case_sensitive)

\* C4: with from_start a row passes the text stage iff its message begins with
\* the query text at position 0; the comparison folds case iff case_sensitive
\* is off, in both modes; a row whose message is missing never passes.
C4_StartAndCase ==
  searched =>
    \A i \in 1..Len(df.rows) :
      LET m == df.rows[i].message
          passed == i \in Index(text_df)
      IN  /\ m.isna => ~passed
          /\ (~m.isna /\ from_start) =>
               (passed <=> LiteralStartsWith(text, m.str, case_sensitive))
          /\ (~m.isna /\ ~from_start /\ \A k \in 1..Len(text) : text[k] \notin SpecialChars) =>
               (passed <=> LiteralContains(text, m.str, case_sensitive))
          /\ (~m.isna /\ ~case_sensitive) =>
               (passed <=> IF from_start
                           THEN str_match(Msg(Fold(m.str)), <<"^">> \o re_escape(Fold(text)), TRUE)
                           ELSE str_contains(Msg(Fold(m.str)), Fold(text), TRUE))

C4_Witness ==
  /\ searched
  /\ from_start
  /\ ~case_sensitive
  /\ Len(text) = 1
  /\ Len(df.rows) = 1
  /\ ~df.rows[1].message.isna
  /\ Len(df.rows[1].message.str) = 2
  /\ df.rows[1].message.str[1] # text[1]
  /\ Len(text_df) = 1

\* the call that ran reached its filter loop
filtered == called /\ (pc = "search_text_matches" => Missing = {})

\* the filter loop raised (a list compared with a column of another length)
LoopRaised == result.kind = "raise" /\ result.exc = "ValueError" /\ result.columns = <<>>

\* the filter loop of the call that ran, on the frame it was given, with other kwargs
Loop(kw) ==
  IF pc = "filter_subset" THEN filter_subset_loop(df, text_df, kw)
  ELSE LET r == search_loop(df, text_df, kw, <<>>) IN [exc |-> r.exc, f |-> r.f]

\* what the call that ran returns once its loop has ended with r
Returns(r, all) ==
  IF pc = "filter_subset" THEN filter_subset_returns(df, r, all)
  ELSE search_returns(df, r, all)

\* kwargs is the one filter key=value, on a column of the table
OneFilter(key) ==
  filtered /\ Len(kwargs) = 1 /\ kwargs[1].key = key /\ key \in df.columns

\* the index labels of the rows given to the loop whose turns cell is in lo..hi
\* (a bound None is no bound)
TurnsWithin(lo, hi) ==
  {text_df[i].idx : i \in {j \in 1..Len(text_df) :
      /\ lo.t = "int" => text_df[j].row.turns >= lo.n
      /\ hi.t = "int" => text_df[j].row.turns <= hi.n}}

\* C5: on a numeric column the number v and the pair (v, v) keep the same rows,
\* the rows whose cell equals v, in both functions.
C5_NumberIsPair ==
  OneFilter("turns") =>
    LET x == kwargs[1].value
    IN  /\ IsNumber(x) =>
             /\ ~LoopRaised
             /\ Index(filtered_df) = TurnsWithin(x.elems[1], x.elems[1])
             /\ [exc |-> "", f |-> filtered_df]
                  = Loop(<<Entry("turns", PyTuple(<<x.elems[1], x.elems[1]>>))>>)
        /\ (IsTuple(x) /\ Len(x.elems) = 2 /\ x.elems[1] = x.elems[2] /\ x.elems[1].t = "int") =>
             /\ ~LoopRaised
             /\ Index(filtered_df) = TurnsWithin(x.elems[1], x.elems[1])
             /\ [exc |-> "", f |-> filtered_df] = Loop(<<Entry("turns", Scalar(x.elems[1]))>>)

C5_Witness ==
  /\ OneFilter("turns")
  /\ pc = "search_text_matches"
  /\ IsNumber(kwargs[1].value)
  /\ Len(text_df) = 2
  /\ Len(filtered_df) = 1

\* C6 as stated: a 1-element sequence [lo], tuple or list, keeps the rows (lo, None)
\* keeps: those with cell >= lo.
C6_SingleAnySequence ==
  OneFilter("turns") =>
    LET x == kwargs[1].value
    IN  ((IsTuple(x) \/ IsList(x)) /\ Len(x.elems) = 1) =>
          /\ ~LoopRaised
          /\ Index(filtered_df) = TurnsWithin(x.elems[1], PyNone)
          /\ [exc |-> "", f |-> filtered_df]
               = Loop(<<Entry("turns", PyTuple(<<x.elems[1], PyNone>>))>>)

\* C6 amended: a 1-element tuple (lo,) keeps the rows (lo, None) keeps: those
\* with cell >= lo (every row when lo is None).
C6_SingleTuple ==
  OneFilter("turns") =>
    LET x == kwargs[1].value
    IN  /\ (IsTuple(x) /\ Len(x.elems) = 1) =>
             /\ ~LoopRaised
             /\ Index(filtered_df) = TurnsWithin(x.elems[1], PyNone)
             /\ [exc |-> "", f |-> filtered_df]
                  = Loop(<<Entry("turns", PyTuple(<<x.elems[1], PyNone>>))>>)
        /\ (IsTuple(x) /\ Len(x.elems) = 2 /\ x.elems[2] = PyNone) =>
             /\ ~LoopRaised
             /\ Index(filtered_df) = TurnsWithin(x.elems[1], PyNone)
             /\ [exc |-> "", f |-> filtered_df] = Loop(<<Entry("turns", PyTuple(<<x.elems[1]>>))>>)

C6_Witness ==
  /\ OneFilter("turns")
  /\ IsTuple(kwargs[1].value)
  /\ Len(kwargs[1].value.elems) = 1
  /\ Len(text_df) = 2
  /\ Len(filtered_df) = 1

\* the index labels of the rows given to the loop whose source cell is one of strs
SourceAmong(strs) ==
  {text_df[i].idx : i \in {j \in 1..Len(text_df) : text_df[j].row.source \in strs}}

\* C7: on a non-numeric column a list keeps the rows whose cell is a member of
\* the list, a scalar the rows whose cell equals it (never a cell that merely
\* contains it), and [x] keeps what x keeps.
C7_ListIsMembership ==
  OneFilter("source") =>
    LET x == kwargs[1].value
    IN  /\ ~LoopRaised
        /\ IsList(x) =>
             Index(filtered_df) = SourceAmong({x.elems[i].s : i \in 1..Len(x.elems)})
        /\ ~IsList(x) => Index(filtered_df) = SourceAmong({x.elems[1].s})
        /\ (IsList(x) /\ Len(x.elems) = 1) =>
             [exc |-> "", f |-> filtered_df] = Loop(<<Entry("source", Scalar(x.elems[1]))>>)
        /\ ~IsList(x) =>
             [exc |-> "", f |-> filtered_df] = Loop(<<Entry("source", PyList(<<x.elems[1]>>))>>)

C7_Witness ==
  /\ OneFilter("source")
  /\ pc = "filter_subset"
  /\ kwargs[1].value = Scalar(PyStr(<<"w">>))
  /\ Len(text_df) = 2
  /\ text_df[1].row.source = <<"w", "c">>
  /\ Index(filtered_df) = {2}

\* the entries of kwargs whose key is a column of the table, and the others' keys
KnownEntries == SelectSeq(kwargs, LAMBDA e : e.key \in df.columns)
UnknownEntries == SelectSeq(kwargs, LAMBDA e : e.key \notin df.columns)
UnknownKeys == [i \in 1..Len(UnknownEntries) |-> UnknownEntries[i].key]

C9_NoneIffNoRowSurvives ==
  called =>
    /\ pc = "search_text_matches" =>
         /\ result.kind = "None" <=>
              (Missing = {} /\ result.kind # "raise" /\ Len(filtered_df) = 0)
         /\ Missing # {} => result.kind = "raise"
         /\ (Missing = {} /\ result.kind = "raise") => LoopRaised
    /\ (pc = "filter_subset" /\ "conv_id" \in df.columns) =>
         /\ result.kind = "None" <=> (result.kind # "raise" /\ Len(filtered_df) = 0)
         /\ result.kind = "raise" => LoopRaised

C9_Witness ==
  /\ pc = "search_text_matches"
  /\ return_all
  /\ result.kind = "None"
  /\ Len(text_df) = 2
  /\ kwargs # <<>>

\* the group keys of the rows that survived
Keys(f) == {f[i].row.conv_id : i \in 1..Len(f)}

\* the position of the first row of f whose group key is g
FirstRow(f, g) == CHOOSE i \in 1..Len(f) :
                    /\ f[i].row.conv_id = g
                    /\ \A j \in 1..(i - 1) : f[j].row.conv_id # g

\* C10: with return_all the call returns the group keys of the surviving rows,
\* each once and nothing else, in the order in which they first appear in the
\* table (one possible return value); without it, the group key returned is
\* one of them, and each of them is a possible return value.
C10_GroupKeysOfSurvivors ==
  (filtered /\ result.kind \notin {"None", "raise"}) =>
    /\ return_all =>
         /\ result.kind = "list"
         /\ {result.ids[i] : i \in 1..Len(result.ids)} = Keys(filtered_df)
         /\ Len(result.ids) = Cardinality(Keys(filtered_df))
         /\ \A i, j \in 1..Len(result.ids) :
              i < j => FirstRow(filtered_df, result.ids[i]) < FirstRow(filtered_df, result.ids[j])
         /\ Returns([exc |-> "", f |-> filtered_df], TRUE) = {result}
    /\ ~return_all =>
         /\ result.kind = IF pc = "filter_subset" THEN "id" ELSE "pair"
         /\ result.id \in Keys(filtered_df)
         /\ {o.id : o \in Returns([exc |-> "", f |-> filtered_df], FALSE)} = Keys(filtered_df)

C10_Witness ==
  /\ filtered
  /\ return_all
  /\ Len(filtered_df) = 2
  /\ result.kind = "list"
  /\ Len(result.ids) = 1

\* the rows of the table, in table order, that survived and belong to group g
SurvivorsOf(g) ==
  SelectSeq(Frame(df), LAMBDA e : e.idx \in Index(filtered_df) /\ e.row.conv_id = g)

\* C11: without return_all, search_text_matches returns (g, turns) with turns
\* the turn_num cells, in table order, of exactly the rows of conversation g
\* that passed the text stage and every filter (a row of g whose message did
\* not match or that a filter dropped gives no turn); turns is never empty.
C11_TurnsOfMatchedRows ==
  (searched /\ ~return_all /\ result.kind \notin {"None", "raise"}) =>
    /\ result.kind = "pair"
    /\ Len(result.turns) > 0
    /\ result.turns = [i \in 1..Len(SurvivorsOf(result.id)) |->
                         SurvivorsOf(result.id)[i].row.turn_num]
    /\ \A i \in 1..Len(df.rows) :
         (df.rows[i].message.isna \/ i \notin Index(text_df)) => i \notin Index(filtered_df)

C11_Witness ==
  /\ searched
  /\ result.kind = "pair"
  /\ Len(df.rows) = 2
  /\ df.rows[1].conv_id = df.rows[2].conv_id
  /\ df.rows[1].message.isna
  /\ df.rows[1].turn_num # df.rows[2].turn_num
  /\ result.turns = <<df.rows[2].turn_num>>

\* the (lo, hi) the rule table gives for a value: None -> (None, None),
\* v -> (v, v), () -> (None, None), (a) -> (a, None), (a, b, ...) -> (a, b)
RuleTable(x) ==
  IF IsNone(x) THEN <<PyNone, PyNone>>
  ELSE IF IsNumber(x) THEN <<x.elems[1], x.elems[1]>>
  ELSE IF Len(x.elems) = 0 THEN <<PyNone, PyNone>>
  ELSE IF Len(x.elems) = 1 THEN <<x.elems[1], PyNone>>
  ELSE <<x.elems[1], x.elems[2]>>

\* the parse_range of the call that ran
ParseRange(x) == IF pc = "filter_subset" THEN parse_range(x) ELSE search_parse_range(x)

\* the one filter on turns is normalised by the rule table and keeps the rows
\* with lo <= cell <= hi, a bound None being no bound
KeepsByRuleTable ==
  LET x == kwargs[1].value
      lo == RuleTable(x)[1]
      hi == RuleTable(x)[2]
  IN  /\ ParseRange(x) = <<Scalar(lo), Scalar(hi)>>
      /\ ~LoopRaised
      /\ Index(filtered_df) = TurnsWithin(lo, hi)
      /\ (lo = PyNone /\ hi = PyNone) => filtered_df = text_df
      /\ (lo.t = "int" /\ hi.t = "int" /\ lo.n > hi.n) => filtered_df = <<>>

\* C12 as stated: on a numeric column every value, a sequence of any type
\* included, is normalised by the rule table and keeps lo <= cell <= hi.
C12_RangeOfAnySequence == OneFilter("turns") => KeepsByRuleTable

\* C12 amended: on a numeric column None, a number and a tuple are normalised
\* by the rule table and keep the rows with lo <= cell <= hi, both inclusive.
C12_RangeOfTuple ==
  (OneFilter("turns") /\ ~IsList(kwargs[1].value)) => KeepsByRuleTable

C12_Witness ==
  /\ OneFilter("turns")
  /\ IsTuple(kwargs[1].value)
  /\ Len(kwargs[1].value.elems) = 3
  /\ kwargs[1].value.elems[2].t = "int"
  /\ kwargs[1].value.elems[3] # kwargs[1].value.elems[2]
  /\ Len(text_df) = 2
  /\ Len(filtered_df) = 1

\* the filter loop of the call that ran, on the frame f
LoopOn(f, kw) ==
  IF pc = "filter_subset" THEN filter_subset_loop(df, f, kw)
  ELSE LET r == search_loop(df, f, kw, <<>>) IN [exc |-> r.exc, f |-> r.f]

\* the orders in which the entries of kw can be applied
Orders(kw) ==
  {[i \in 1..Len(kw) |-> kw[p[i]]] :
     p \in {q \in [1..Len(kw) -> 1..Len(kw)] : \A i, j \in 1..Len(kw) : i # j => q[i] # q[j]}}

\* the rows given to the loop that each entry of kwargs, applied alone, keeps
KeptByEachAlone ==
  {i \in Index(text_df) :
     \A k \in 1..Len(kwargs) :
       LET alone == LoopOn(text_df, <<kwargs[k]>>)
       IN  alone.exc = "" /\ i \in Index(alone.f)}

\* whatever the order of the entries the loop ends as it did, with the rows
\* every entry alone keeps, in table order; the same kwargs applied to the
\* kept rows keep them all
OrderDoesNotMatter ==
  /\ \A kw \in Orders(kwargs) :
       LoopOn(text_df, kw) = [exc |-> IF LoopRaised THEN "ValueError" ELSE "", f |-> filtered_df]
  /\ ~LoopRaised =>
       /\ Index(filtered_df) = KeptByEachAlone
       /\ \A i, j \in 1..Len(filtered_df) : i < j => filtered_df[i].idx < filtered_df[j].idx
       /\ LoopOn(filtered_df, kwargs) = [exc |-> "", f |-> filtered_df]

\* C13 as stated: for every filter mapping the kept rows do not depend on the
\* order of the entries, are the rows every entry alone keeps, and applying
\* the mapping again removes nothing.
C13_AnyMapping == filtered => OrderDoesNotMatter

\* no entry gives a list for a numeric column of the table
NoListOnNumeric ==
  \A k \in 1..Len(kwargs) :
    (kwargs[k].key \in df.columns /\ is_numeric_dtype(kwargs[k].key)) => ~IsList(kwargs[k].value)

\* C13 amended: the same, for filter mappings that give no list for a numeric
\* column.
C13_RowPredicates == (filtered /\ NoListOnNumeric) => (~LoopRaised /\ OrderDoesNotMatter)

C13_Witness ==
  /\ filtered
  /\ NoListOnNumeric
  /\ Len(KnownEntries) = 2
  /\ Len(text_df) = 2
  /\ Len(LoopOn(text_df, <<KnownEntries[1]>>).f) = 1
  /\ Len(LoopOn(text_df, <<KnownEntries[2]>>).f) = 1
  /\ Len(filtered_df) = 0

\* what filter_subset gives for the arguments of the state
FilterSubsetOutcomes ==
  filter_subset_returns(df, filter_subset_loop(df, copy(df), kwargs), return_all)

\* what search_text_matches gives for the arguments of the state, its required
\* columns being there
SearchOutcomes ==
  search_returns(df,
                 search_loop(df, SelectMask(copy(df),
                                            text_mask(copy(df), text, case_sensitive, from_start)),
                             kwargs, <<>>),
                 return_all)

\* the table has the required columns and no missing message, every filter
\* key is a column, the query text is empty and return_all is set
SameQuestion ==
  /\ called
  /\ Missing = {}
  /\ \A i \in 1..Len(df.rows) : ~df.rows[i].message.isna
  /\ \A k \in 1..Len(kwargs) : kwargs[k].key \in df.columns
  /\ text = <<>>
  /\ return_all

\* C14: on such arguments search_text_matches and filter_subset give the same
\* outcome: the same list of group keys, or None (or the same error).
C14_SameFilterLogic ==
  SameQuestion =>
    /\ FilterSubsetOutcomes = {result}
    /\ SearchOutcomes = {result}

C14_Witness ==
  /\ SameQuestion
  /\ pc = "search_text_matches"
  /\ Len(kwargs) = 2
  /\ Len(df.rows) = 2
  /\ Len(filtered_df) = 1
  /\ result.kind = "list"

====
